---- MODULE Spec2Model ----
(***************************************************************************)
(* transpyle/cpp/compiler.py: the SWIG-based C++ build pipeline            *)
(* (CppSwigCompiler.compile) as a state machine of build threads sharing   *)
(* one process (one current working directory, one file system), and the   *)
(* descriptor synthesizer SwigCompiler._create_swig_interface as a pure    *)
(* function over header texts.                                             *)
(***************************************************************************)
EXTENDS Integers, Sequences, FiniteSets, TLC

VARIABLES
    platform,       \* platform.system() of the host
    cwd,            \* os.getcwd(): the process-wide current working directory
    dirs,           \* directories that exist on disk
    files,          \* files on disk: path -> content
    written,        \* history: [build, path] of every file write
    pc,             \* per build: position in compile()
    error,          \* per build: the exception compile() raised, or "none"
    path,           \* per build: argument `path` of compile()
    output_folder,  \* per build: `output_folder` (argument, then local)
    header_code,    \* per build: local `header_code`
    swig_interface, \* per build: local `swig_interface`
    saved_cwd,      \* per build: local `cwd` of compile()
    entry_cwd,      \* per build: history, os.getcwd() when compile() was called
    generated,      \* per build: history, the number of create_header_file() calls
    ret,            \* per build: the value compile() returned
    calls,          \* per build: history of run_tool() invocations
    stages,         \* per build: history of the stages entered
    header_in,      \* descriptor synthesizer: the header text given
    iface_pc,       \* descriptor synthesizer: "idle", "call" or "return"
    iface           \* descriptor synthesizer: locals and result

vars == <<platform, cwd, dirs, files, written, pc, error, path, output_folder,
          header_code, swig_interface, saved_cwd, entry_cwd, generated, ret,
          calls, stages, header_in, iface_pc, iface>>

buildVars == <<platform, cwd, dirs, files, written, pc, error, path,
               output_folder, header_code, swig_interface, saved_cwd,
               entry_cwd, generated, ret, calls, stages>>

ifaceVars == <<header_in, iface_pc, iface>>

None == "None"

(***************************************************************************)
(* Bounds of the model.                                                    *)
(***************************************************************************)
\* the build threads of the process
Builds == {"b1", "b2"}

\* the longest header text, in tokens
MaxHeaderLen == 5

\* host platforms: the two of the compiler mapping and one outside it
Platforms == {"Linux", "Darwin", "Windows"}

\* file names are sequences of tokens; "." is a token of its own.  Two
\* sources share a stem, and one carries the suffix of the generated header.
SourceNames == { <<"m", ".", "cpp">>, <<"n", ".", "cc">>, <<"m", ".", "hpp">> }

SourceDir == "/src"

InitialCwd == "/w"

\* output directories a caller may supply (they exist), the source file's own
\* directory among them
CallerDirs == {"/out1", "/out2", SourceDir}

\* the names tempfile.mkdtemp() may draw
TmpDirs == {"/tmp/t1", "/tmp/t2"}

(***************************************************************************)
(* pathlib: names, suffixes, paths.                                        *)
(***************************************************************************)
RECURSIVE rfind(_, _, _)
\* str.rfind: the last position <= k of token tok in name, 0 when there is none
rfind(name, tok, k) ==
    IF k = 0 THEN 0
    ELSE IF name[k] = tok THEN k
    ELSE rfind(name, tok, k - 1)

\* PurePath.suffix: from the last dot, unless the dot leads or ends the name
suffix(name) ==
    LET i == rfind(name, ".", Len(name))
    IN IF 1 < i /\ i < Len(name) THEN SubSeq(name, i, Len(name)) ELSE <<>>

\* PurePath.stem
stem(name) ==
    LET i == rfind(name, ".", Len(name))
    IN IF 1 < i /\ i < Len(name) THEN SubSeq(name, 1, i - 1) ELSE name

Path(d, name) == [dir |-> d, name |-> name]

\* PurePath.with_suffix
with_suffix(p, sfx) == Path(p.dir, stem(p.name) \o sfx)

\* PurePath.with_name
with_name(p, name) == Path(p.dir, name)

\* PurePath.joinpath of a directory and a file name
joinpath(d, name) == Path(d, name)

\* PurePath.relative_to of a path directly under directory d
relative_to(p, d) == Path(".", p.name)

(***************************************************************************)
(* The file system.                                                        *)
(***************************************************************************)
exists(fs, p) == p \in DOMAIN fs

\* fs with content c at path p (created or overwritten)
WriteFile(fs, p, c) ==
    [q \in (DOMAIN fs) \cup {p} |-> IF q = p THEN c ELSE fs[q]]

\* fs with content c at each path of ps
WriteFiles(fs, ps, c) ==
    [q \in (DOMAIN fs) \cup ps |-> IF q \in ps THEN c[q] ELSE fs[q]]

\* shutil.rmtree: fs without the files under directory d
RemoveTree(fs, d) ==
    [q \in {r \in DOMAIN fs : r.dir # d} |-> fs[q]]

SourcePaths == {Path(SourceDir, n) : n \in SourceNames}

SourceText(p) == [kind |-> "source", of |-> p]

(***************************************************************************)
(* Paths derived in compile().                                             *)
(***************************************************************************)
hpp_path(b) == with_suffix(joinpath(output_folder[b], path[b].name), <<".", "hpp">>)

cpp_path(b) == joinpath(output_folder[b], path[b].name)

swig_interface_path(b) ==
    joinpath(output_folder[b], with_suffix(path[b], <<".", "i">>).name)

wrapper_path(b) ==
    joinpath(output_folder[b],
             with_suffix(path[b], <<>>).name \o <<"_wrap", ".", "cxx">>)

\* the value compile() returns
loader_path(b) == with_suffix(cpp_path(b), <<".", "py">>)

\* the two objects and the library named on the linker's command line
object_path(b) == with_suffix(cpp_path(b), <<".", "o">>)

wrapper_object_path(b) == with_suffix(wrapper_path(b), <<".", "o">>)

\* the library named after the source, without the leading underscore
library_path_NoPrefix(b) == with_suffix(cpp_path(b), <<".", "so">>)

library_path(b) ==
    with_suffix(with_name(cpp_path(b), <<"_">> \o cpp_path(b).name), <<".", "so">>)

(***************************************************************************)
(* SwigCompiler.create_header_file and create_swig_interface.              *)
(***************************************************************************)
\* the header the front end unparses from the source at p
create_header_file(fs, p) == [kind |-> "header", of |-> fs[p].of]

\* SWIG_INTERFACE_TEMPLATE_HPP filled in
create_swig_interface(p) ==
    [kind |-> "descriptor",
     module_name |-> with_suffix(p, <<>>).name,
     include_path |-> p]

(***************************************************************************)
(* Stage bookkeeping.                                                      *)
(***************************************************************************)
StageOrder ==
    << "RESOLVE_OUTPUT_DIR", "GENERATE_HEADER", "WRITE_HEADER",
       "SYNTHESIZE_DESCRIPTOR", "COPY_SOURCE", "WRITE_DESCRIPTOR",
       "INVOKE_GENERATOR", "COMPILE", "LINK", "DONE" >>

Last(s) == s[Len(s)]

\* stage s is entered by build b (once, however many steps it takes)
Enter(b, s) ==
    stages' = [stages EXCEPT ![b] =
                  IF Len(@) > 0 /\ Last(@) = s THEN @ ELSE Append(@, s)]

Goto(b, label) == pc' = [pc EXCEPT ![b] = label]

Raise(b, exc) ==
    /\ pc' = [pc EXCEPT ![b] = "ERROR"]
    /\ error' = [error EXCEPT ![b] = exc]

Log(b, ps) == written' = written \cup {[build |-> b, path |-> p] : p \in ps}

(***************************************************************************)
(* compile(), lines 160-176: up to the descriptor file.                    *)
(***************************************************************************)
\* the call: compile(code, path, output_folder)
Call(b) ==
    /\ pc[b] = "idle"
    /\ \E p \in SourcePaths, o \in CallerDirs \cup {None} :
          /\ path' = [path EXCEPT ![b] = p]
          /\ output_folder' = [output_folder EXCEPT ![b] = o]
    /\ entry_cwd' = [entry_cwd EXCEPT ![b] = cwd]
    /\ Goto(b, "RESOLVE_OUTPUT_DIR")
    /\ UNCHANGED <<platform, generated, cwd, dirs, files, written, error, header_code,
                   swig_interface, saved_cwd, ret, calls, stages>>
    /\ UNCHANGED ifaceVars

\* lines 162-164: tempfile.TemporaryDirectory() makes a fresh directory and
\* output_folder is bound to it inside the with block
ResolveOutputDir(b) ==
    /\ pc[b] = "RESOLVE_OUTPUT_DIR"
    /\ Enter(b, "RESOLVE_OUTPUT_DIR")
    /\ IF output_folder[b] = None
       THEN \E t \in TmpDirs \ dirs :
               /\ dirs' = dirs \cup {t}
               /\ output_folder' = [output_folder EXCEPT ![b] = t]
               /\ Goto(b, "tmp_cleanup")
       ELSE /\ Goto(b, "GENERATE_HEADER")
            /\ UNCHANGED <<dirs, output_folder>>
    /\ UNCHANGED <<platform, entry_cwd, generated, cwd, files, written, error, path, header_code,
                   swig_interface, saved_cwd, ret, calls>>
    /\ UNCHANGED ifaceVars

\* line 163, leaving the with block: the temporary directory is removed
TmpCleanup(b) ==
    /\ pc[b] = "tmp_cleanup"
    /\ dirs' = dirs \ {output_folder[b]}
    /\ files' = RemoveTree(files, output_folder[b])
    /\ Goto(b, "tmp_mkdir")
    /\ UNCHANGED <<platform, entry_cwd, generated, cwd, written, error, path, output_folder,
                   header_code, swig_interface, saved_cwd, ret, calls, stages>>
    /\ UNCHANGED ifaceVars

\* line 165 left out: the directory stays removed
mkdir_Missing(ds, d) == ds

\* what line 165 leaves on disk: Path.mkdir() of directory d
mkdir(ds, d) == ds \cup {d}

\* the build going on without line 165
TmpMkdir_Skipped(b) ==
    /\ pc[b] = "tmp_mkdir"
    /\ Goto(b, "GENERATE_HEADER")
    /\ UNCHANGED <<platform, entry_cwd, generated, cwd, dirs, files, written,
                   error, path, output_folder, header_code, swig_interface,
                   saved_cwd, ret, calls, stages>>
    /\ UNCHANGED ifaceVars

\* line 165: output_folder.mkdir()
TmpMkdir(b) ==
    /\ pc[b] = "tmp_mkdir"
    /\ IF output_folder[b] \in dirs
       THEN /\ Raise(b, "FileExistsError")
            /\ UNCHANGED dirs
       ELSE /\ dirs' = mkdir(dirs, output_folder[b])
            /\ Goto(b, "GENERATE_HEADER")
            /\ UNCHANGED error
    /\ UNCHANGED <<platform, entry_cwd, generated, cwd, files, written, path, output_folder,
                   header_code, swig_interface, saved_cwd, ret, calls, stages>>
    /\ UNCHANGED ifaceVars

\* line 166
GenerateHeader(b) ==
    /\ pc[b] = "GENERATE_HEADER"
    /\ Enter(b, "GENERATE_HEADER")
    /\ header_code' = [header_code EXCEPT ![b] = create_header_file(files, path[b])]
    /\ generated' = [generated EXCEPT ![b] = @ + 1]
    /\ Goto(b, "WRITE_HEADER")
    /\ UNCHANGED <<platform, entry_cwd, cwd, dirs, files, written, error, path,
                   output_folder, swig_interface, saved_cwd, ret, calls>>
    /\ UNCHANGED ifaceVars

\* lines 167-169
WriteHeader(b) ==
    /\ pc[b] = "WRITE_HEADER"
    /\ Enter(b, "WRITE_HEADER")
    /\ IF output_folder[b] \in dirs
       THEN /\ files' = WriteFile(files, hpp_path(b), header_code[b])
            /\ Log(b, {hpp_path(b)})
            /\ Goto(b, "SYNTHESIZE_DESCRIPTOR")
            /\ UNCHANGED error
       ELSE /\ Raise(b, "FileNotFoundError")
            /\ UNCHANGED <<files, written>>
    /\ UNCHANGED <<platform, entry_cwd, generated, cwd, dirs, path, output_folder, header_code,
                   swig_interface, saved_cwd, ret, calls>>
    /\ UNCHANGED ifaceVars

\* line 170
SynthesizeDescriptor(b) ==
    /\ pc[b] = "SYNTHESIZE_DESCRIPTOR"
    /\ Enter(b, "SYNTHESIZE_DESCRIPTOR")
    /\ swig_interface' = [swig_interface EXCEPT ![b] =
          create_swig_interface(relative_to(hpp_path(b), output_folder[b]))]
    /\ Goto(b, "COPY_SOURCE")
    /\ UNCHANGED <<platform, entry_cwd, generated, cwd, dirs, files, written, error, path,
                   output_folder, header_code, saved_cwd, ret, calls>>
    /\ UNCHANGED ifaceVars

\* the stage with the copy left out
CopySource_Skipped(b) ==
    /\ pc[b] = "COPY_SOURCE"
    /\ Enter(b, "COPY_SOURCE")
    /\ Goto(b, "WRITE_DESCRIPTOR")
    /\ UNCHANGED <<platform, entry_cwd, generated, cwd, dirs, files, written, error, path,
                   output_folder, header_code, swig_interface, saved_cwd, ret,
                   calls>>
    /\ UNCHANGED ifaceVars

\* lines 171-172: shutil.copy2 refuses to copy a file onto itself
CopySource(b) ==
    /\ pc[b] = "COPY_SOURCE"
    /\ Enter(b, "COPY_SOURCE")
    /\ IF cpp_path(b) = path[b]
       THEN /\ Raise(b, "SameFileError")
            /\ UNCHANGED <<files, written>>
       ELSE IF ~ exists(files, path[b]) \/ output_folder[b] \notin dirs
       THEN /\ Raise(b, "FileNotFoundError")
            /\ UNCHANGED <<files, written>>
       ELSE /\ files' = WriteFile(files, cpp_path(b), files[path[b]])
            /\ Log(b, {cpp_path(b)})
            /\ Goto(b, "WRITE_DESCRIPTOR")
            /\ UNCHANGED error
    /\ UNCHANGED <<platform, entry_cwd, generated, cwd, dirs, path, output_folder, header_code,
                   swig_interface, saved_cwd, ret, calls>>
    /\ UNCHANGED ifaceVars

\* lines 173-176
WriteDescriptor(b) ==
    /\ pc[b] = "WRITE_DESCRIPTOR"
    /\ Enter(b, "WRITE_DESCRIPTOR")
    /\ IF output_folder[b] \in dirs
       THEN /\ files' = WriteFile(files, swig_interface_path(b), swig_interface[b])
            /\ Log(b, {swig_interface_path(b)})
            /\ Goto(b, "getcwd")
            /\ UNCHANGED error
       ELSE /\ Raise(b, "FileNotFoundError")
            /\ UNCHANGED <<files, written>>
    /\ UNCHANGED <<platform, entry_cwd, generated, cwd, dirs, path, output_folder, header_code,
                   swig_interface, saved_cwd, ret, calls>>
    /\ UNCHANGED ifaceVars

(***************************************************************************)
(* The external tools, as run_tool() sees them: what a successful run      *)
(* needs on disk and what it leaves there.  A relative output name is      *)
(* resolved against the working directory the tool is started in.          *)
(***************************************************************************)
\* swig -python -c++ <interface>: the glue source and the loader module, put
\* next to the interface file (no -o, -outdir or -outcurrentdir is given)
swig_outputs(fs, wd, ipath) ==
    LET glue == Path(ipath.dir, stem(ipath.name) \o <<"_wrap", ".", "cxx">>)
        loader == Path(ipath.dir, fs[ipath].module_name \o <<".", "py">>)
    IN (glue :> [kind |-> "glue", of |-> fs[ipath].module_name])
       @@ (loader :> [kind |-> "loader", of |-> fs[ipath].module_name])

swig_can_succeed(fs, ipath) ==
    /\ exists(fs, ipath)
    /\ fs[ipath].kind = "descriptor"

\* g++ -c <source> <glue>: one object per input, named after it, no -o given
compiler_outputs(fs, wd, src, glue) ==
    LET o1 == Path(wd, stem(src.name) \o <<".", "o">>)
        o2 == Path(wd, stem(glue.name) \o <<".", "o">>)
    IN (o1 :> [kind |-> "object", of |-> fs[src]])
       @@ (o2 :> [kind |-> "object", of |-> fs[glue]])

compiler_can_succeed(fs, src, glue) == exists(fs, src) /\ exists(fs, glue)

\* g++ -shared <object> <object> -o <library>
linker_outputs(fs, o1, o2, lib) ==
    lib :> [kind |-> "library", of |-> <<fs[o1], fs[o2]>>]

linker_can_succeed(fs, o1, o2) == exists(fs, o1) /\ exists(fs, o2)

ReturnCodes == {0, 1}

\* the command line names no output file (no -o)
NoOutput == Path(None, <<>>)

\* one run_tool() invocation, as recorded in the history
Invocation(exe, mode, wd, inputs, output, rc) ==
    [exe |-> exe, mode |-> mode, cwd |-> wd, inputs |-> inputs,
     output |-> output, returncode |-> rc]

Record(b, inv) == calls' = [calls EXCEPT ![b] = Append(@, inv)]

(***************************************************************************)
(* run_gpp, line 131: the compiler mapping.                                *)
(***************************************************************************)
CompilerMapping == [Linux |-> "g++", Darwin |-> "clang++"]

KeyError == "KeyError"

\* a lookup that falls back to g++ on a platform the mapping does not name
run_gpp_compiler_Defaulted(plat) ==
    IF plat \in DOMAIN CompilerMapping THEN CompilerMapping[plat] ELSE "g++"

\* the lookup {...}[platform.system()]: the compiler, or the KeyError raised
run_gpp_compiler(plat) ==
    IF plat \in DOMAIN CompilerMapping THEN CompilerMapping[plat] ELSE KeyError

(***************************************************************************)
(* compile(), lines 178-192.                                               *)
(***************************************************************************)
\* line 178: cwd = os.getcwd()
GetCwd(b) ==
    /\ pc[b] = "getcwd"
    /\ Enter(b, "INVOKE_GENERATOR")
    /\ saved_cwd' = [saved_cwd EXCEPT ![b] = cwd]
    /\ Goto(b, "chdir")
    /\ UNCHANGED <<platform, entry_cwd, generated, cwd, dirs, files, written, error, path,
                   output_folder, header_code, swig_interface, ret, calls>>
    /\ UNCHANGED ifaceVars

\* the directory changed to that of the source file instead
ChDir_ToSourceDir(b) ==
    /\ pc[b] = "chdir"
    /\ cwd' = path[b].dir
    /\ Goto(b, "INVOKE_GENERATOR")
    /\ UNCHANGED <<platform, entry_cwd, generated, dirs, files, written, error, path,
                   output_folder, header_code, swig_interface, saved_cwd, ret,
                   calls, stages>>
    /\ UNCHANGED ifaceVars

\* line 179: os.chdir(str(output_folder))
ChDir(b) ==
    /\ pc[b] = "chdir"
    /\ IF output_folder[b] \in dirs
       THEN /\ cwd' = output_folder[b]
            /\ Goto(b, "INVOKE_GENERATOR")
            /\ UNCHANGED error
       ELSE /\ Raise(b, "FileNotFoundError")
            /\ UNCHANGED cwd
    /\ UNCHANGED <<platform, entry_cwd, generated, dirs, files, written, path, output_folder,
                   header_code, swig_interface, saved_cwd, ret, calls, stages>>
    /\ UNCHANGED ifaceVars

\* the return code of the generator left unchecked
GeneratorFailed_Never(rc) == FALSE

\* line 181: the generator's result is a failure
GeneratorFailed(rc) == rc # 0

\* the output directory removed when the generator has failed
InvokeGenerator_CleaningUp(b) ==
    /\ pc[b] = "INVOKE_GENERATOR"
    /\ \E rc \in ReturnCodes :
          /\ rc = 0 => swig_can_succeed(files, swig_interface_path(b))
          /\ Record(b, Invocation("swig", "-python", cwd,
                                  <<swig_interface_path(b)>>, NoOutput, rc))
          /\ IF rc = 0
             THEN LET out == swig_outputs(files, cwd, swig_interface_path(b))
                  IN /\ files' = WriteFiles(files, DOMAIN out, out)
                     /\ Log(b, DOMAIN out)
                     /\ UNCHANGED dirs
             ELSE /\ files' = RemoveTree(files, output_folder[b])
                  /\ dirs' = dirs \ {output_folder[b]}
                  /\ UNCHANGED written
          /\ IF rc # 0
             THEN Raise(b, "RuntimeError")
             ELSE Goto(b, "COMPILE") /\ UNCHANGED error
    /\ UNCHANGED <<platform, entry_cwd, generated, cwd, path, output_folder,
                   header_code, swig_interface, saved_cwd, ret, stages>>
    /\ UNCHANGED ifaceVars

\* the generator run again after a failure, instead of the raise
InvokeGenerator_Retrying(b) ==
    /\ pc[b] = "INVOKE_GENERATOR"
    /\ \E rc \in ReturnCodes :
          /\ rc = 0 => swig_can_succeed(files, swig_interface_path(b))
          /\ Record(b, Invocation("swig", "-python", cwd,
                                  <<swig_interface_path(b)>>, NoOutput, rc))
          /\ IF rc = 0
             THEN LET out == swig_outputs(files, cwd, swig_interface_path(b))
                  IN /\ files' = WriteFiles(files, DOMAIN out, out)
                     /\ Log(b, DOMAIN out)
             ELSE UNCHANGED <<files, written>>
          /\ IF rc # 0
             THEN Goto(b, "INVOKE_GENERATOR")
             ELSE Goto(b, "COMPILE")
    /\ UNCHANGED <<platform, entry_cwd, generated, cwd, dirs, error, path,
                   output_folder, header_code, swig_interface, saved_cwd, ret,
                   stages>>
    /\ UNCHANGED ifaceVars

\* lines 180-185: run_swig, then the check of its return code
InvokeGenerator(b) ==
    /\ pc[b] = "INVOKE_GENERATOR"
    /\ \E rc \in ReturnCodes :
          /\ rc = 0 => swig_can_succeed(files, swig_interface_path(b))
          /\ Record(b, Invocation("swig", "-python", cwd,
                                  <<swig_interface_path(b)>>, NoOutput, rc))
          /\ IF rc = 0
             THEN LET out == swig_outputs(files, cwd, swig_interface_path(b))
                  IN /\ files' = WriteFiles(files, DOMAIN out, out)
                     /\ Log(b, DOMAIN out)
             ELSE UNCHANGED <<files, written>>
          /\ IF GeneratorFailed(rc)
             THEN Raise(b, "RuntimeError")
             ELSE Goto(b, "COMPILE") /\ UNCHANGED error
    /\ UNCHANGED <<platform, entry_cwd, generated, cwd, dirs, path, output_folder, header_code,
                   swig_interface, saved_cwd, ret, stages>>
    /\ UNCHANGED ifaceVars

\* the assertion written on the truth of the return code (assert result.returncode)
AssertPasses_Truthy(rc) == rc # 0

\* the assertion passing whatever the return code
AssertPasses_Stripped(rc) == TRUE

\* lines 187 and 189: assert result.returncode == 0
AssertPasses(rc) == rc = 0

\* lines 186-187: run_cpp_compiler (136-145) through run_gpp (130-134)
Compile(b) ==
    /\ pc[b] = "COMPILE"
    /\ Enter(b, "COMPILE")
    /\ IF run_gpp_compiler(platform) = KeyError
       THEN /\ Raise(b, KeyError)
            /\ UNCHANGED <<files, written, calls>>
       ELSE \E rc \in ReturnCodes :
          /\ rc = 0 => compiler_can_succeed(files, cpp_path(b), wrapper_path(b))
          /\ Record(b, Invocation(run_gpp_compiler(platform), "-c", cwd,
                                  <<cpp_path(b), wrapper_path(b)>>, NoOutput, rc))
          /\ IF rc = 0
             THEN LET out == compiler_outputs(files, cwd, cpp_path(b), wrapper_path(b))
                  IN /\ files' = WriteFiles(files, DOMAIN out, out)
                     /\ Log(b, DOMAIN out)
             ELSE UNCHANGED <<files, written>>
          /\ IF AssertPasses(rc)
             THEN Goto(b, "LINK") /\ UNCHANGED error
             ELSE Raise(b, "AssertionError")
    /\ UNCHANGED <<platform, entry_cwd, generated, cwd, dirs, path, output_folder, header_code,
                   swig_interface, saved_cwd, ret>>
    /\ UNCHANGED ifaceVars

\* lines 188-189: run_cpp_linker (147-158) through run_gpp (130-134)
Link(b) ==
    /\ pc[b] = "LINK"
    /\ Enter(b, "LINK")
    /\ IF run_gpp_compiler(platform) = KeyError
       THEN /\ Raise(b, KeyError)
            /\ UNCHANGED <<files, written, calls>>
       ELSE \E rc \in ReturnCodes :
          /\ rc = 0 => linker_can_succeed(files, object_path(b), wrapper_object_path(b))
          /\ Record(b, Invocation(run_gpp_compiler(platform), "-shared", cwd,
                                  <<object_path(b), wrapper_object_path(b)>>,
                                  library_path(b), rc))
          /\ IF rc = 0
             THEN LET out == linker_outputs(files, object_path(b),
                                            wrapper_object_path(b), library_path(b))
                  IN /\ files' = WriteFiles(files, DOMAIN out, out)
                     /\ Log(b, DOMAIN out)
             ELSE UNCHANGED <<files, written>>
          /\ IF AssertPasses(rc)
             THEN Goto(b, "chdir_back") /\ UNCHANGED error
             ELSE Raise(b, "AssertionError")
    /\ UNCHANGED <<platform, entry_cwd, generated, cwd, dirs, path, output_folder, header_code,
                   swig_interface, saved_cwd, ret>>
    /\ UNCHANGED ifaceVars

\* line 190: os.chdir(cwd)
ChDirBack(b) ==
    /\ pc[b] = "chdir_back"
    /\ IF saved_cwd[b] \in dirs
       THEN /\ cwd' = saved_cwd[b]
            /\ Goto(b, "return")
            /\ UNCHANGED error
       ELSE /\ Raise(b, "FileNotFoundError")
            /\ UNCHANGED cwd
    /\ UNCHANGED <<platform, entry_cwd, generated, dirs, files, written, path, output_folder,
                   header_code, swig_interface, saved_cwd, ret, calls, stages>>
    /\ UNCHANGED ifaceVars

\* line 192: return cpp_path.with_suffix('.py')
Return(b) ==
    /\ pc[b] = "return"
    /\ Enter(b, "DONE")
    /\ ret' = [ret EXCEPT ![b] = loader_path(b)]
    /\ Goto(b, "DONE")
    /\ UNCHANGED <<platform, entry_cwd, generated, cwd, dirs, files, written, error, path,
                   output_folder, header_code, swig_interface, saved_cwd, calls>>
    /\ UNCHANGED ifaceVars

(***************************************************************************)
(* SwigCompiler._create_swig_interface, lines 80-96, over header texts.    *)
(* A text is a sequence of tokens; the directive prefix '#include' is one  *)
(* token, so a line starts with the prefix iff its first token is it.      *)
(***************************************************************************)
IncludePrefix == "#include"

Newline == "\n"

Tokens == {IncludePrefix, "int f();", " ", Newline}

RECURSIVE splitlines_from(_, _, _)
\* str.splitlines from position k on, cur being the line read so far: a line
\* break ends a line, and the text after the last break is a line only when
\* there is some
splitlines_from(text, k, cur) ==
    IF k > Len(text) THEN (IF cur = <<>> THEN <<>> ELSE <<cur>>)
    ELSE IF text[k] = Newline
         THEN <<cur>> \o splitlines_from(text, k + 1, <<>>)
         ELSE splitlines_from(text, k + 1, Append(cur, text[k]))

\* str.splitlines
splitlines(text) == splitlines_from(text, 1, <<>>)

RECURSIVE join(_, _)
\* sep.join(lines)
join(sep, lines) ==
    IF lines = <<>> THEN <<>>
    ELSE IF Len(lines) = 1 THEN lines[1]
    ELSE lines[1] \o <<sep>> \o join(sep, Tail(lines))

\* the prefix looked for anywhere in the line ('#include' in line)
startswith_include_Anywhere(line) ==
    \E i \in 1..Len(line) : line[i] = IncludePrefix

\* line 87: line.startswith('#include')
startswith_include(line) == Len(line) > 0 /\ line[1] = IncludePrefix

RECURSIVE classify_DroppingBlank(_, _, _)
\* the loop skipping blank lines instead of passing them through
classify_DroppingBlank(lines, k, acc) ==
    IF k > Len(lines) THEN acc
    ELSE IF lines[k] = <<>>
         THEN classify_DroppingBlank(lines, k + 1, acc)
    ELSE IF Len(lines[k]) > 0 /\ lines[k][1] = IncludePrefix
         THEN classify_DroppingBlank(lines, k + 1,
                       [acc EXCEPT !.include_directives = Append(@, lines[k])])
         ELSE classify_DroppingBlank(lines, k + 1,
                       [acc EXCEPT !.function_signatures = Append(@, lines[k])])

RECURSIVE classify(_, _, _)
\* lines 84-91: the loop over the lines from position k on, acc holding the
\* two collections built so far
classify(lines, k, acc) ==
    IF k > Len(lines) THEN acc
    ELSE IF startswith_include(lines[k])
         THEN classify(lines, k + 1,
                       [acc EXCEPT !.include_directives = Append(@, lines[k])])
         ELSE classify(lines, k + 1,
                       [acc EXCEPT !.function_signatures = Append(@, lines[k])])

\* lines 82-96: the collections and SWIG_INTERFACE_TEMPLATE filled in
create_swig_interface_from_source(p, header) ==
    LET acc == classify(splitlines(header), 1,
                        [include_directives |-> <<>>, function_signatures |-> <<>>])
    IN [include_directives |-> acc.include_directives,
        function_signatures |-> acc.function_signatures,
        swig_interface |->
            [kind |-> "descriptor",
             module_name |-> with_suffix(p, <<>>).name,
             include_directives |-> join(Newline, acc.include_directives),
             function_signatures |-> join(Newline, acc.function_signatures)]]

RECURSIVE TextsUpTo(_)
\* the token sequences of length at most n
TextsUpTo(n) ==
    IF n = 0 THEN {<<>>}
    ELSE LET shorter == TextsUpTo(n - 1)
         IN shorter \cup {Append(t, c) : t \in shorter, c \in Tokens}

\* the call _create_swig_interface(path), from the header the front end gave
\* to the return of the descriptor
CreateSwigInterface ==
    /\ iface_pc = "call"
    /\ \E p \in SourcePaths :
          iface' = create_swig_interface_from_source(p, header_in)
    /\ iface_pc' = "return"
    /\ UNCHANGED header_in
    /\ UNCHANGED buildVars

(***************************************************************************)
(* The process: build threads calling compile() once each.                 *)
(***************************************************************************)
NoPath == Path(None, <<>>)

NoText == [kind |-> "none"]

InitIfaceIdle ==
    /\ header_in = <<>>
    /\ iface_pc = "idle"
    /\ iface = [include_directives |-> <<>>, function_signatures |-> <<>>,
                swig_interface |-> NoText]

InitBuilds ==
    /\ platform \in Platforms
    /\ cwd = InitialCwd
    /\ dirs = {InitialCwd} \cup CallerDirs
    /\ files = [p \in SourcePaths |-> SourceText(p)]
    /\ written = {}
    /\ pc = [b \in Builds |-> "idle"]
    /\ error = [b \in Builds |-> "none"]
    /\ path = [b \in Builds |-> NoPath]
    /\ output_folder = [b \in Builds |-> None]
    /\ header_code = [b \in Builds |-> NoText]
    /\ swig_interface = [b \in Builds |-> NoText]
    /\ saved_cwd = [b \in Builds |-> None]
    /\ entry_cwd = [b \in Builds |-> None]
    /\ generated = [b \in Builds |-> 0]
    /\ ret = [b \in Builds |-> NoPath]
    /\ calls = [b \in Builds |-> <<>>]
    /\ stages = [b \in Builds |-> <<>>]

Init == InitBuilds /\ InitIfaceIdle

Next ==
    \E b \in Builds :
        \/ Call(b)
        \/ ResolveOutputDir(b)
        \/ TmpCleanup(b)
        \/ TmpMkdir(b)
        \/ GenerateHeader(b)
        \/ WriteHeader(b)
        \/ SynthesizeDescriptor(b)
        \/ CopySource(b)
        \/ WriteDescriptor(b)
        \/ GetCwd(b)
        \/ ChDir(b)
        \/ InvokeGenerator(b)
        \/ Compile(b)
        \/ Link(b)
        \/ ChDirBack(b)
        \/ Return(b)

Spec == Init /\ [][Next]_vars

(***************************************************************************)
(* The descriptor synthesizer alone, over every header text of the bound.  *)
(***************************************************************************)
InitIface ==
    /\ InitBuilds
    /\ header_in \in TextsUpTo(MaxHeaderLen)
    /\ iface_pc = "call"
    /\ iface = [include_directives |-> <<>>, function_signatures |-> <<>>,
                swig_interface |-> NoText]

NextIface == CreateSwigInterface

SpecIface == InitIface /\ [][NextIface]_vars


(***************************************************************************)
(* Properties of the build pipeline.                                       *)
(***************************************************************************)
Terminal(b) == pc[b] \in {"DONE", "ERROR"}

IsPrefix(s, t) == Len(s) <= Len(t) /\ s = SubSeq(t, 1, Len(s))

\* the invocations of build b in the given mode
CallsIn(b, mode) == {k \in 1..Len(calls[b]) : calls[b][k].mode = mode}

\* C1: in every build the stages are entered in the order
\* RESOLVE_OUTPUT_DIR, GENERATE_HEADER, WRITE_HEADER, SYNTHESIZE_DESCRIPTOR,
\* COPY_SOURCE, WRITE_DESCRIPTOR, INVOKE_GENERATOR, COMPILE, LINK, DONE (a
\* build that returns has entered them all); the generator is invoked only
\* once the header and descriptor files of the build are on disk, the compiler
\* only once the copied source is on disk and the generator has exited zero,
\* the linker only once the compiler has exited zero.
C1_StagesInOrder ==
    \A b \in Builds :
        /\ IsPrefix(stages[b], StageOrder)
        /\ pc[b] = "DONE" => stages[b] = StageOrder
        /\ \A k \in CallsIn(b, "-python") :
              /\ k = 1
              /\ [build |-> b, path |-> hpp_path(b)] \in written
              /\ [build |-> b, path |-> swig_interface_path(b)] \in written
              /\ exists(files, hpp_path(b))
              /\ exists(files, swig_interface_path(b))
        /\ \A k \in CallsIn(b, "-c") :
              /\ k = 2
              /\ [build |-> b, path |-> cpp_path(b)] \in written
              /\ exists(files, cpp_path(b))
              /\ calls[b][1].mode = "-python" /\ calls[b][1].returncode = 0
        /\ \A k \in CallsIn(b, "-shared") :
              /\ k = 3
              /\ calls[b][2].mode = "-c" /\ calls[b][2].returncode = 0

\* C1 witness: a build went through every stage and invoked the three tools
C1_Witness ==
    \E b \in Builds :
        /\ pc[b] = "DONE"
        /\ Len(calls[b]) = 3
        /\ stages[b] = StageOrder

\* C2: when the generator exits nonzero, compile raises the generation error
\* (the RuntimeError of line 182) and the build invokes neither the compiler
\* nor the linker.
C2_GeneratorFailureAborts ==
    \A b \in Builds :
        (\E k \in CallsIn(b, "-python") : calls[b][k].returncode # 0)
            => /\ pc[b] = "ERROR"
               /\ error[b] = "RuntimeError"
               /\ CallsIn(b, "-c") = {}
               /\ CallsIn(b, "-shared") = {}

\* C2 witness: a build whose generator exited nonzero
C2_Witness ==
    \E b \in Builds :
        /\ Len(calls[b]) = 1
        /\ calls[b][1].exe = "swig"
        /\ calls[b][1].returncode = 1
        /\ error[b] = "RuntimeError"

\* C3: in every terminal state of compile (return or raised error) the
\* process's working directory is the one it had when compile was called.
C3_CwdRestoredAtEveryExit ==
    \A b \in Builds : Terminal(b) => cwd = entry_cwd[b]

\* C4: for two builds with distinct output directories, a build's generator
\* is always invoked with the working directory at that build's own output
\* directory, and no build changes the directory between another build's
\* change and the end of that build's generator call.
C4_GeneratorRunsInOwnDirectory ==
    \A a \in Builds : \A b \in Builds \ {a} :
        output_folder[a] # output_folder[b]
            => /\ \A k \in CallsIn(a, "-python") :
                     calls[a][k].cwd = output_folder[a]
               /\ ~ (pc[a] = "INVOKE_GENERATOR" /\ pc[b] = "INVOKE_GENERATOR")

\* C5: for two builds with distinct output directories, every file a build
\* writes lies under that build's own output directory, and no file is
\* written by both builds.
C5_ArtifactsUnderOwnDirectory ==
    \A a \in Builds : \A b \in Builds \ {a} :
        output_folder[a] # output_folder[b]
            => \A w \in written :
                  /\ w.path.dir = output_folder[w.build]
                  /\ \A v \in written : v.path = w.path => v.build = w.build

\* build b has reached WRITE_HEADER
ReachedWriteHeader(b) ==
    \E k \in 1..Len(stages[b]) : stages[b][k] = "WRITE_HEADER"

C7_NoToolOnUnsupportedPlatform ==
    \A b \in Builds :
        (platform \notin DOMAIN CompilerMapping /\ Terminal(b))
            => pc[b] = "ERROR" /\ calls[b] = <<>>

\* C7 amended: on a platform outside the compiler mapping a build never
\* invokes the compiler or the linker and never returns; the lookup fails
\* (KeyError) when the build reaches COMPILE, after the generator has been
\* invoked and has exited zero, so the generator is the one external tool
\* such a build may invoke.
C7_NoCompilerOnUnsupportedPlatform ==
    \A b \in Builds :
        platform \notin DOMAIN CompilerMapping
            => /\ \A k \in 1..Len(calls[b]) : calls[b][k].exe = "swig"
               /\ Len(calls[b]) <= 1
               /\ Terminal(b) => pc[b] = "ERROR"
               /\ pc[b] \notin {"LINK", "chdir_back", "return", "DONE"}
               /\ error[b] = KeyError
                     <=> (Terminal(b) /\ Len(calls[b]) = 1
                          /\ calls[b][1].returncode = 0)

\* C7 witness: the lookup failed in a build on an unsupported platform
C7_Witness ==
    \E b \in Builds :
        /\ platform = "Windows"
        /\ error[b] = KeyError
        /\ Len(calls[b]) = 1

\* the path of the loader and of the library, from the base name of the source
ExpectedLoader(b) == Path(output_folder[b], stem(path[b].name) \o <<".", "py">>)

ExpectedLibrary(b) ==
    Path(output_folder[b], <<"_">> \o stem(path[b].name) \o <<".", "so">>)

\* C10: compile returns a path exactly in DONE, after the generator, the
\* compiler and the linker were each invoked and exited zero; the path is
\* <output directory>/<source base name>.py, its base name that of the source
\* with another extension, and the shared library is then on disk in the
\* output directory.
C10_ReturnsLoaderOnlyWhenDone ==
    \A b \in Builds :
        /\ pc[b] = "DONE" <=> ret[b] # NoPath
        /\ ret[b] # NoPath
              => /\ Len(calls[b]) = 3
                 /\ \A k \in 1..3 : calls[b][k].returncode = 0
                 /\ <<calls[b][1].mode, calls[b][2].mode, calls[b][3].mode>>
                       = <<"-python", "-c", "-shared">>
                 /\ ret[b] = ExpectedLoader(b)
                 /\ stem(ret[b].name) = stem(path[b].name)
                 /\ suffix(ret[b].name) # suffix(path[b].name)
                 /\ exists(files, ExpectedLibrary(b))
                 /\ files[ExpectedLibrary(b)].kind = "library"

\* C10 witness: a build returned
C10_Witness ==
    \E b \in Builds :
        /\ pc[b] = "DONE"
        /\ ret[b].name = <<"m", ".", "py">>
        /\ output_folder[b] = "/out1"

(***************************************************************************)
(* Properties of the descriptor synthesizer.                               *)
(***************************************************************************)
\* a line whose first token is the include-directive prefix
IsIncludeLine(line) == line # <<>> /\ Head(line) = IncludePrefix

IsDeclarationLine(line) == ~ IsIncludeLine(line)

\* C8: every line of the header is placed in exactly one block, in the
\* include block iff it starts with '#include'; each block holds its lines
\* verbatim in their order in the header, and is rendered as those lines
\* joined by newlines.
C8_ClassificationPartition ==
    iface_pc = "return"
        => LET lines == splitlines(header_in)
               inc == SelectSeq(lines, IsIncludeLine)
               sig == SelectSeq(lines, IsDeclarationLine)
           IN /\ iface.include_directives = inc
              /\ iface.function_signatures = sig
              /\ Len(iface.include_directives) + Len(iface.function_signatures)
                    = Len(lines)
              /\ iface.swig_interface.include_directives = join(Newline, inc)
              /\ iface.swig_interface.function_signatures = join(Newline, sig)

\* C8 witness: a header with lines of both kinds, one of them holding the
\* prefix elsewhere than at its start
C8_Witness ==
    /\ iface_pc = "return"
    /\ Len(iface.include_directives) >= 1
    /\ \E k \in 1..Len(iface.function_signatures) :
          \E i \in 2..Len(iface.function_signatures[k]) :
              iface.function_signatures[k][i] = IncludePrefix

\* the number of positions of seq holding x
Count(seq, x) == Cardinality({k \in 1..Len(seq) : seq[k] = x})

\* s and t hold the same lines, each as many times
SameLines(s, t) ==
    /\ Len(s) = Len(t)
    /\ \A k \in 1..Len(s) : Count(s, s[k]) = Count(t, s[k])

\* no include-directive line comes after a declaration line
IncludesFirst(lines) ==
    \A i \in 1..Len(lines), j \in 1..Len(lines) :
        (i < j /\ IsDeclarationLine(lines[i])) => IsDeclarationLine(lines[j])

\* C9 as stated: the include block followed by the declaration block is the
\* original sequence of lines.
C9_ConcatenationIsHeader ==
    iface_pc = "return"
        => iface.include_directives \o iface.function_signatures
              = splitlines(header_in)

\* C9 amended: the include block followed by the declaration block holds
\* the lines of the header, each as many times as the header does; it is the
\* original sequence of lines exactly when no include directive follows a
\* declaration line in the header.
C9_ConcatenationIsPermutation ==
    iface_pc = "return"
        => LET lines == splitlines(header_in)
               both == iface.include_directives \o iface.function_signatures
           IN /\ SameLines(both, lines)
              /\ both = lines <=> IncludesFirst(lines)

\* C9 witness: a header whose include directive follows a declaration line
C9_Witness ==
    /\ iface_pc = "return"
    /\ Len(iface.include_directives) >= 1
    /\ Len(iface.function_signatures) >= 1
    /\ iface.include_directives \o iface.function_signatures
          # splitlines(header_in)

(***************************************************************************)
(* Further properties of the build pipeline.                               *)
(***************************************************************************)
\* C11: a nonzero exit of any of the three tools ends the build in an error
\* raised to the caller: after a compiler failure the linker is never
\* invoked, after a compiler or linker failure no path is returned, and a
\* build that goes on past a tool (or returns) has seen that tool exit zero.
C11_FailuresAbortAndSurface ==
    \A b \in Builds :
        /\ \A k \in 1..Len(calls[b]) :
              calls[b][k].returncode # 0
                  => /\ k = Len(calls[b])
                     /\ pc[b] = "ERROR"
                     /\ error[b] \in {"RuntimeError", "AssertionError"}
                     /\ ret[b] = NoPath
        /\ (\E k \in CallsIn(b, "-c") : calls[b][k].returncode # 0)
              => CallsIn(b, "-shared") = {} /\ error[b] = "AssertionError"
        /\ (\E k \in CallsIn(b, "-shared") : calls[b][k].returncode # 0)
              => ret[b] = NoPath /\ error[b] = "AssertionError"

\* C11 witness: one build stopped at a failed compiler, the other at a
\* failed linker
C11_Witness ==
    \E a \in Builds : \E b \in Builds :
        /\ Len(calls[a]) = 2 /\ calls[a][2].returncode = 1
        /\ pc[a] = "ERROR"
        /\ Len(calls[b]) = 3 /\ calls[b][3].returncode = 1
        /\ pc[b] = "ERROR"

\* the module identifier: the file name of the source without its extension
ModuleIdentifier(b) ==
    LET name == path[b].name
        dot == rfind(name, ".", Len(name))
    IN IF dot > 1 /\ dot < Len(name) THEN SubSeq(name, 1, dot - 1) ELSE name

\* C12: for a source with module identifier m, the glue source handed to
\* the compiler is <output directory>/m_wrap.cxx and the library handed to
\* the linker after -o is <output directory>/_m.so, whatever the working
\* directory and whatever else the build has done.
C12_PathConvention ==
    \A b \in Builds :
        /\ \A k \in CallsIn(b, "-c") :
              /\ Len(calls[b][k].inputs) = 2
              /\ calls[b][k].inputs[2]
                    = [dir |-> output_folder[b],
                       name |-> ModuleIdentifier(b) \o <<"_wrap">> \o <<".", "cxx">>]
              /\ calls[b][k].output = NoOutput
        /\ \A k \in CallsIn(b, "-shared") :
              calls[b][k].output
                  = [dir |-> output_folder[b],
                     name |-> <<"_">> \o ModuleIdentifier(b) \o <<".", "so">>]

\* C12 witness: a build whose linker was invoked, started in a working
\* directory that is not the build's output directory
C12_Witness ==
    \E b \in Builds :
        /\ Len(calls[b]) = 3
        /\ calls[b][3].mode = "-shared"
        /\ calls[b][3].cwd # output_folder[b]
        /\ calls[b][3].output.name = <<"_", "m", ".", "so">>

\* C13 as stated: the working directory is the output directory during
\* INVOKE_GENERATOR and, at every other stage, COMPILE and LINK included,
\* the directory the process was in when compile was called.
C13_CwdChangedForGeneratorOnly ==
    \A b \in Builds :
        /\ pc[b] = "INVOKE_GENERATOR" => cwd = output_folder[b]
        /\ pc[b] \in {"GENERATE_HEADER", "WRITE_HEADER", "SYNTHESIZE_DESCRIPTOR",
                      "COPY_SOURCE", "WRITE_DESCRIPTOR", "COMPILE", "LINK", "DONE"}
              => cwd = entry_cwd[b]

\* no build other than b has been called
RunsAlone(b) == \A a \in Builds \ {b} : pc[a] = "idle"

\* the step is one of build b
StepOf(b) == pc'[b] # pc[b]

\* C13 amended: a build changes the working directory at two points only,
\* to its output directory right before INVOKE_GENERATOR (line 179) and
\* back to the directory saved at line 178 after LINK, once the linker has
\* exited zero (line 190); it does not change it between the generator, the
\* compiler and the linker.  So in a build running alone the working
\* directory is the output directory at INVOKE_GENERATOR, COMPILE and LINK
\* alike, and the directory of the call at the stages before and in DONE.
C13_CwdChangedFromGeneratorThroughLink ==
    /\ [](\A b \in Builds :
            /\ pc[b] \in {"chdir_back", "return", "DONE"}
                  => /\ Len(calls[b]) = 3
                     /\ calls[b][3].mode = "-shared"
                     /\ calls[b][3].returncode = 0
            /\ RunsAlone(b)
                  => /\ pc[b] \in {"INVOKE_GENERATOR", "COMPILE", "LINK"}
                           => cwd = output_folder[b] /\ cwd # entry_cwd[b]
                     /\ \A k \in 1..Len(calls[b]) :
                           calls[b][k].cwd = output_folder[b]
                     /\ pc[b] \in {"RESOLVE_OUTPUT_DIR", "GENERATE_HEADER",
                                   "WRITE_HEADER", "SYNTHESIZE_DESCRIPTOR",
                                   "COPY_SOURCE", "WRITE_DESCRIPTOR", "DONE"}
                           => cwd = entry_cwd[b])
    /\ [][\A b \in Builds :
            /\ (StepOf(b) /\ pc[b] = "chdir" /\ pc'[b] # "ERROR")
                  => cwd' = output_folder[b]
            /\ (StepOf(b) /\ pc[b] = "chdir_back" /\ pc'[b] # "ERROR")
                  => cwd' = saved_cwd[b]
            /\ (StepOf(b) /\ pc[b] \notin {"chdir", "chdir_back"})
                  => cwd' = cwd]_vars

\* C13 witness: a build running alone whose compiler and linker were started
\* in the output directory, not in the directory of the call
C13_Witness ==
    \E b \in Builds :
        /\ RunsAlone(b)
        /\ pc[b] = "chdir_back"
        /\ calls[b][2].cwd = output_folder[b]
        /\ calls[b][3].cwd = output_folder[b]
        /\ cwd # entry_cwd[b]

\* C14: the linker is given exactly the two objects <output directory>/m.o
\* and <output directory>/m_wrap.o, and when it is invoked both are on disk,
\* written by the compile stage of the same build from its copied source and
\* its glue source.
C14_LinkerReadsOwnObjects ==
    \A b \in Builds :
        \A k \in CallsIn(b, "-shared") :
            LET o1 == [dir |-> output_folder[b],
                       name |-> ModuleIdentifier(b) \o <<".", "o">>]
                o2 == [dir |-> output_folder[b],
                       name |-> ModuleIdentifier(b) \o <<"_wrap">> \o <<".", "o">>]
            IN /\ calls[b][k].inputs = <<o1, o2>>
               /\ [build |-> b, path |-> o1] \in written
               /\ [build |-> b, path |-> o2] \in written
               /\ exists(files, o1) /\ exists(files, o2)
               /\ \A v \in written :
                     v.path \in {o1, o2} => v.build = b

\* build b is past line 166
PastGenerateHeader(b) ==
    \E k \in 1..Len(stages[b]) : stages[b][k] = "WRITE_HEADER"

\* C15: within one build the generator, the compiler and the linker are
\* each invoked at most once, whatever their exit statuses, and the header
\* is generated once: never twice, and exactly once in every build that has
\* got past GENERATE_HEADER.
C15_NoRetry ==
    \A b \in Builds :
        /\ Cardinality(CallsIn(b, "-python")) <= 1
        /\ Cardinality(CallsIn(b, "-c")) <= 1
        /\ Cardinality(CallsIn(b, "-shared")) <= 1
        /\ Len(calls[b]) <= 3
        /\ generated[b] <= 1
        /\ (PastGenerateHeader(b) \/ calls[b] # <<>>) => generated[b] = 1

\* C15 witness: one build ended on a failed tool, the other returned, each
\* tool invoked once
C15_Witness ==
    \E a \in Builds : \E b \in Builds :
        /\ pc[a] = "ERROR" /\ Len(calls[a]) >= 1
        /\ calls[a][Len(calls[a])].returncode = 1
        /\ generated[a] = 1
        /\ pc[b] = "DONE" /\ Len(calls[b]) = 3
        /\ generated[b] = 1

\* build b failed at one of the three tool stages
FailedAtTool(b) ==
    /\ pc[b] = "ERROR"
    /\ Last(stages[b]) \in {"INVOKE_GENERATOR", "COMPILE", "LINK"}

\* C16: when a build has failed at INVOKE_GENERATOR, COMPILE or LINK, its
\* output directory is still there and so are, in it, the header file, the
\* descriptor file and the copied source, and (wherever it was put) every
\* glue source and object file the build's tools wrote.
C16_ArtifactsKeptOnFailure ==
    \A b \in Builds :
        FailedAtTool(b)
            => /\ output_folder[b] \in dirs
               /\ \A name \in {stem(path[b].name) \o <<".", "hpp">>,
                               stem(path[b].name) \o <<".", "i">>,
                               path[b].name} :
                     [dir |-> output_folder[b], name |-> name] \in DOMAIN files
               /\ \A w \in written : w.build = b => w.path \in DOMAIN files
               /\ \A k \in 1..Len(calls[b]) :
                     (calls[b][k].mode = "-python" /\ calls[b][k].returncode = 0)
                         => [dir |-> output_folder[b],
                             name |-> stem(path[b].name) \o <<"_wrap", ".", "cxx">>]
                               \in DOMAIN files

\* C16 witness: builds that failed at the generator and at the linker
C16_Witness ==
    \E a \in Builds : \E b \in Builds :
        /\ FailedAtTool(a) /\ Last(stages[a]) = "INVOKE_GENERATOR"
        /\ FailedAtTool(b) /\ Last(stages[b]) = "LINK"
        /\ error[b] = "AssertionError"

\* build b was called without an output directory and has been given one
Allocated(b) == output_folder[b] \in TmpDirs

\* C17: a build called without an output directory has its allocated
\* directory on disk from line 166 on, so at the return the loader path and
\* the shared library lie in an existing directory; a directory is removed
\* by one step only, the cleanup of the temporary directory a build has just
\* allocated, which is empty then and holds no artifact of any build, and
\* no file is ever removed.
C17_AllocatedDirectoryKept ==
    /\ [](\A b \in Builds :
            Allocated(b)
                => /\ pc[b] \notin {"RESOLVE_OUTPUT_DIR", "tmp_cleanup",
                                    "tmp_mkdir", "ERROR"}
                         => output_folder[b] \in dirs
                   /\ pc[b] = "DONE"
                         => /\ ret[b].dir = output_folder[b]
                            /\ ret[b].dir \in dirs
                            /\ ExpectedLibrary(b) \in DOMAIN files
                   /\ (pc[b] = "ERROR" /\ error[b] # "FileExistsError")
                         => output_folder[b] \in dirs)
    /\ [][/\ DOMAIN files \subseteq DOMAIN files'
          /\ \A d \in dirs \ dirs' :
                \E b \in Builds :
                    /\ pc[b] = "tmp_cleanup" /\ pc'[b] = "tmp_mkdir"
                    /\ output_folder[b] = d
                    /\ \A p \in DOMAIN files : p.dir # d
                    /\ \A w \in written : w.path.dir # d]_vars

\* C17 witness: a build called without an output directory returned
C17_Witness ==
    \E b \in Builds :
        /\ Allocated(b)
        /\ pc[b] = "DONE"
        /\ ret[b].dir \in TmpDirs
        /\ ExpectedLibrary(b) \in DOMAIN files

\* C18: the input source file of a build is never modified or deleted:
\* whatever the output directory, the source file's own directory included,
\* the file at the build's source path holds what it held when compile was
\* called.
C18_SourceNeverModified ==
    \A b \in Builds :
        pc[b] # "idle"
            => /\ path[b] \in DOMAIN files
               /\ files[path[b]] = SourceText(path[b])

====
